---------------------------- MODULE Spec2Model ----------------------------
(***************************************************************************)
(* The Btrfs superblock codec of src/superblock.rs: the positional read of *)
(* the 4096-byte record at 0x10000, its little-endian field-by-field       *)
(* decode and encode, the checksum classification, the declared CRC32      *)
(* extraction and the CRC-32C comparison of the test pipeline.             *)
(*                                                                         *)
(* TLC's integers are 32-bit signed, so a u32 or u64 is held as the        *)
(* little-endian sequence of its base-65536 digits (2 digits for a u32, 4  *)
(* for a u64); a u8 and a u16 are plain integers.  The value of the digit  *)
(* sequence <<d1, d2>> is d1 + 65536*d2.                                   *)
(***************************************************************************)
EXTENDS Integers, Sequences, FiniteSets, TLC

VARIABLES
    file,        \* the storage handle: its size, whether the medium reads, its bytes from BTRFS_SUPER_POS on
    buf,         \* read_from_block's local buffer after read_at
    sbRes,       \* Result<Superblock> of read_from_block
    csumTypeRes, \* CSUMType returned by get_csum_type
    crc32Res,    \* Result<u32> of get_crc32
    bytesRes,    \* Result<[u8; 4096]> of to_bytes
    crcRes,      \* crc32c(&b[32..]) of the test pipeline
    pc,          \* position of the caller in the pipeline
    prev,        \* the results of the pipeline on the record before it was tampered with
    tamper       \* the bit of the stored record that was flipped between the two runs

vars == <<file, buf, sbRes, csumTypeRes, crc32Res, bytesRes, crcRes, pc, prev, tamper>>

---------------------------------------------------------------------------
(* Program constants.                                                      *)

BTRFS_SUPER_POS == 65536
BTRFS_SUPER_INFO_SIZE == 4096
BTRFS_LABEL_SIZE == 256
BTRFS_UUID_SIZE == 16
BTRFS_FSID_SIZE == 16
BTRFS_SYSTEM_CHUNK_ARRAY_SIZE == 2048
BTRFS_NUM_BACKUP_ROOTS == 4

(* Bounds of the model.                                                    *)

NumImages == 2        \* payload patterns of the stored record
MaxCsumType == 4      \* csum_type is drawn from 0..MaxCsumType and two edge values

---------------------------------------------------------------------------
(* Result values.                                                          *)

Ok(v) == [ok |-> TRUE, val |-> v]
Err(e) == [ok |-> FALSE, err |-> e]
Unset == Err("unset")

---------------------------------------------------------------------------
(* Record layout: the declared fields, in order, with their types.         *)

U8 == [k |-> "int", w |-> 1]
U16 == [k |-> "int", w |-> 2]
U32 == [k |-> "int", w |-> 4]
U64 == [k |-> "int", w |-> 8]
Arr(t, n) == [k |-> "arr", t |-> t, n |-> n]
Struct(fields) == [k |-> "struct", fields |-> fields]

DevItemLayout ==
    Struct(<< <<"devid", U64>>, <<"total_bytes", U64>>, <<"bytes_used", U64>>,
              <<"io_align", U32>>, <<"io_width", U32>>, <<"sector_size", U32>>,
              <<"item_type", U64>>, <<"generation", U64>>, <<"start_offset", U64>>,
              <<"dev_group", U32>>, <<"seek_speed", U8>>, <<"bandwidth", U8>>,
              <<"uuid", Arr(U8, BTRFS_UUID_SIZE)>>, <<"fsid", Arr(U8, BTRFS_FSID_SIZE)>> >>)

RootBackupLayout ==
    Struct(<< <<"tree_root", U64>>, <<"tree_root_gen", U64>>,
              <<"chunk_root", U64>>, <<"chunk_root_gen", U64>>,
              <<"extent_root", U64>>, <<"extent_root_gen", U64>>,
              <<"fs_root", U64>>, <<"fs_root_gen", U64>>,
              <<"dev_root", U64>>, <<"dev_root_gen", U64>>,
              <<"csum_root", U64>>, <<"csum_root_gen", U64>>,
              <<"total_bytes", U64>>, <<"bytes_used", U64>>, <<"num_devices", U64>>,
              <<"unused_64", Arr(U64, 4)>>,
              <<"tree_root_level", U8>>, <<"chunk_root_level", U8>>,
              <<"extent_root_level", U8>>, <<"fs_root_level", U8>>,
              <<"dev_root_level", U8>>, <<"csum_root_level", U8>>,
              <<"unused_8", Arr(U8, 10)>> >>)

(* The trailing padding that brings the record to BTRFS_SUPER_INFO_SIZE.    *)
PaddingShort == Arr(U8, 564)

Padding == Arr(U8, 565)

SuperblockLayout ==
    Struct(<< <<"csum", Arr(U8, 32)>>, <<"fs_uuid", Arr(U8, BTRFS_FSID_SIZE)>>,
              <<"bytenr", U64>>, <<"flags", U64>>, <<"magic", Arr(U8, 8)>>,
              <<"generation", U64>>, <<"root", U64>>, <<"chunk_root", U64>>,
              <<"log_root", U64>>, <<"log_root_transid", U64>>,
              <<"total_bytes", U64>>, <<"bytes_used", U64>>,
              <<"root_dir_objectid", U64>>, <<"num_devices", U64>>,
              <<"sectorsize", U32>>, <<"nodesize", U32>>, <<"unused_leafsize", U32>>,
              <<"stripesize", U32>>, <<"sys_chunk_array_size", U32>>,
              <<"chunk_root_generation", U64>>, <<"compat_flags", U64>>,
              <<"compat_ro_flags", U64>>, <<"incompat_flags", U64>>,
              <<"csum_type", U16>>, <<"root_level", U8>>, <<"chunk_root_level", U8>>,
              <<"log_root_level", U8>>, <<"dev_item", DevItemLayout>>,
              <<"label", Arr(U8, BTRFS_LABEL_SIZE)>>,
              <<"cache_generation", U64>>, <<"uuid_tree_generation", U64>>,
              <<"metadata_uuid", Arr(U8, BTRFS_FSID_SIZE)>>,
              <<"nr_global_roots", U64>>, <<"block_group_root", U64>>,
              <<"block_group_root_generation", U64>>, <<"block_group_root_level", U8>>,
              <<"reserved8", Arr(U8, 7)>>, <<"reserved", Arr(U64, 24)>>,
              <<"sys_chunk_array", Arr(U8, BTRFS_SYSTEM_CHUNK_ARRAY_SIZE)>>,
              <<"super_roots", Arr(RootBackupLayout, BTRFS_NUM_BACKUP_ROOTS)>>,
              <<"padding", Padding>> >>)

(* The encoded width of a type: the sum of the widths of what it holds.    *)
RECURSIVE SizeOf(_), SumSizes(_, _)
SizeOf(t) ==
    CASE t.k = "int" -> t.w
      [] t.k = "arr" -> t.n * SizeOf(t.t)
      [] t.k = "struct" -> SumSizes(t.fields, Len(t.fields))

SumSizes(fields, n) ==
    IF n = 0 THEN 0 ELSE SumSizes(fields, n - 1) + SizeOf(fields[n][2])

(* Where the cursor stands when field i of a struct is read or written.    *)
FieldOffset(fields, i) == SumSizes(fields, i - 1)

FieldIndex(fields, name) == CHOOSE i \in 1..Len(fields) : fields[i][1] = name

FieldNames(fields) == {fields[i][1] : i \in 1..Len(fields)}

---------------------------------------------------------------------------
(* The little-endian integer codec (brw(little)).  pos is a 0-based byte   *)
(* offset into bytes.                                                      *)

ReadInt(w, bytes, pos) ==
    IF w = 1 THEN bytes[pos + 1]
    ELSE IF w = 2 THEN bytes[pos + 1] + 256 * bytes[pos + 2]
    ELSE [j \in 1..(w \div 2) |-> bytes[pos + 2 * j - 1] + 256 * bytes[pos + 2 * j]]

WriteIntBE(w, v) ==
    IF w = 1 THEN <<v>>
    ELSE IF w = 2 THEN <<v \div 256, v % 256>>
    ELSE [i \in 1..w |-> IF i % 2 = 1 THEN v[(w - i + 1) \div 2] \div 256
                                        ELSE v[(w - i + 2) \div 2] % 256]

WriteInt(w, v) ==
    IF w = 1 THEN <<v>>
    ELSE IF w = 2 THEN <<v % 256, v \div 256>>
    ELSE [i \in 1..w |-> IF i % 2 = 1 THEN v[(i + 1) \div 2] % 256
                                        ELSE v[i \div 2] \div 256]

(* BinRead: every field is read in declaration order at the cursor.        *)
RECURSIVE Read(_, _, _)
Read(t, bytes, pos) ==
    CASE t.k = "int" -> ReadInt(t.w, bytes, pos)
      [] t.k = "arr" ->
            LET sz == SizeOf(t.t)
            IN  [i \in 1..t.n |-> Read(t.t, bytes, pos + (i - 1) * sz)]
      [] t.k = "struct" ->
            [name \in FieldNames(t.fields) |->
                LET i == FieldIndex(t.fields, name)
                IN  Read(t.fields[i][2], bytes, pos + FieldOffset(t.fields, i))]

(* BinWrite: every field is written in declaration order.                  *)
RECURSIVE Write(_, _), WriteElems(_, _, _, _), WriteFields(_, _, _, _)
Write(t, v) ==
    CASE t.k = "int" -> WriteInt(t.w, v)
      [] t.k = "arr" -> WriteElems(t.t, v, 1, t.n)
      [] t.k = "struct" -> WriteFields(t.fields, v, 1, Len(t.fields))

WriteElems(t, v, lo, hi) ==
    IF lo > hi THEN <<>>
    ELSE IF lo = hi THEN Write(t, v[lo])
    ELSE LET mid == (lo + hi) \div 2
         IN  WriteElems(t, v, lo, mid) \o WriteElems(t, v, mid + 1, hi)

WriteFields(fields, v, lo, hi) ==
    IF lo > hi THEN <<>>
    ELSE IF lo = hi THEN Write(fields[lo][2], v[fields[lo][1]])
    ELSE LET mid == (lo + hi) \div 2
         IN  WriteFields(fields, v, lo, mid) \o WriteFields(fields, v, mid + 1, hi)

DecodeValidated(bytes) ==
    IF Len(bytes) < SizeOf(SuperblockLayout) THEN Err("unexpected end of input")
    ELSE IF SubSeq(bytes, 65, 72) # <<95, 66, 72, 82, 102, 83, 95, 77>>
         THEN Err("bad magic")
    ELSE Ok(Read(SuperblockLayout, bytes, 0))

(* reader.read_le::<Superblock>(): fails when the cursor runs out of bytes. *)
Decode(bytes) ==
    IF Len(bytes) < SizeOf(SuperblockLayout) THEN Err("unexpected end of input")
    ELSE Ok(Read(SuperblockLayout, bytes, 0))


(* to_bytes: the record written to a fresh Vec, refused unless its length   *)
(* is BTRFS_SUPER_INFO_SIZE.                                               *)
ToBytes(sb) ==
    LET v == Write(SuperblockLayout, sb)
    IN  IF Len(v) # BTRFS_SUPER_INFO_SIZE THEN Err("size does not match")
        ELSE Ok(v)

GetCsumTypeMasked(sb) ==
    CASE sb.csum_type % 4 = 1 -> "Xxhash"
      [] sb.csum_type % 4 = 2 -> "Sha256"
      [] sb.csum_type % 4 = 3 -> "Blake2"
      [] OTHER -> "Crc32"

(* get_csum_type: the match on csum_type, with its catch-all arm.          *)
GetCsumType(sb) ==
    CASE sb.csum_type = 1 -> "Xxhash"
      [] sb.csum_type = 2 -> "Sha256"
      [] sb.csum_type = 3 -> "Blake2"
      [] OTHER -> "Crc32"

GetCrc32Unguarded(sb) == Ok(ReadInt(4, SubSeq(sb.csum, 1, 4), 0))

GetCrc32BE(sb) ==
    IF GetCsumType(sb) # "Crc32" THEN Err("csum_type is not crc32")
    ELSE Ok(<<sb.csum[4] + 256 * sb.csum[3], sb.csum[2] + 256 * sb.csum[1]>>)

(* get_crc32: u32::from_le_bytes(csum[0..4]) unless the type is not Crc32. *)
GetCrc32(sb) ==
    IF GetCsumType(sb) # "Crc32" THEN Err("csum_type is not crc32")
    ELSE Ok(ReadInt(4, SubSeq(sb.csum, 1, 4), 0))

---------------------------------------------------------------------------
(* crc32c::crc32c: CRC-32C (Castagnoli), reflected polynomial 0x82F63B78,  *)
(* initial value and final xor 0xFFFFFFFF, computed a byte at a time from  *)
(* the 256-entry table.  The register is held as its 4 bytes, low first.   *)

RECURSIVE XorBits(_, _, _)
XorBits(a, b, n) ==
    IF n = 0 THEN 0 ELSE ((a + b) % 2) + 2 * XorBits(a \div 2, b \div 2, n - 1)

XorTab == [a \in 0..255 |-> [b \in 0..255 |-> XorBits(a, b, 8)]]

Xor4(a, b) == [i \in 1..4 |-> XorTab[a[i]][b[i]]]

Castagnoli == <<120, 59, 246, 130>>   \* 0x82F63B78, low byte first

Shr1(c) == [i \in 1..4 |-> (c[i] \div 2) + (IF i < 4 THEN 128 * (c[i + 1] % 2) ELSE 0)]

RECURSIVE TableEntry(_, _)
TableEntry(c, k) ==
    IF k = 0 THEN c
    ELSE TableEntry(IF c[1] % 2 = 1 THEN Xor4(Shr1(c), Castagnoli) ELSE Shr1(c), k - 1)

CrcTable == [n \in 0..255 |-> TableEntry(<<n, 0, 0, 0>>, 8)]

CrcStep(c, b) ==
    LET t == CrcTable[XorTab[c[1]][b]]
    IN  <<XorTab[t[1]][c[2]], XorTab[t[2]][c[3]], XorTab[t[3]][c[4]], t[4]>>

(* The register after the bytes data[lo..hi], taken in order.              *)
RECURSIVE CrcFold(_, _, _, _)
CrcFold(c, data, lo, hi) ==
    IF c = <<>> \/ lo > hi THEN c
    ELSE IF lo = hi THEN CrcStep(c, data[lo])
    ELSE LET mid == (lo + hi) \div 2
         IN  CrcFold(CrcFold(c, data, lo, mid), data, mid + 1, hi)

Crc32cShort(data) ==
    LET c == Xor4(CrcFold(<<255, 255, 255, 255>>, data, 1, Len(data) - 1),
                  <<255, 255, 255, 255>>)
    IN  <<c[1] + 256 * c[2], c[3] + 256 * c[4]>>

Crc32c(data) ==
    LET c == Xor4(CrcFold(<<255, 255, 255, 255>>, data, 1, Len(data)),
                  <<255, 255, 255, 255>>)
    IN  <<c[1] + 256 * c[2], c[3] + 256 * c[4]>>


---------------------------------------------------------------------------
(* The storage handle.  Only the bytes from BTRFS_SUPER_POS on are held:    *)
(* the code never reads below that offset.                                 *)

Min(a, b) == IF a < b THEN a ELSE b

Zeros(n) == [i \in 1..n |-> 0]

(* FileExt::read_at on a regular file: an error when the medium does not   *)
(* read, otherwise the bytes that exist in [offset, offset + len), whose   *)
(* count may be less than len (down to 0 at or past the end of the file).  *)
ReadAt(f, len, offset) ==
    IF ~f.readable THEN Err("io")
    ELSE LET n == IF offset >= f.size THEN 0 ELSE Min(len, f.size - offset)
             first == offset - BTRFS_SUPER_POS
         IN  Ok([n |-> n, bytes |-> SubSeq(f.data, first + 1, first + n)])

(* read_from_block, the read: a zeroed buffer and read_at into it, the     *)
(* byte count dropped (only an error of read_at is propagated).            *)
ReadIntoBuf(f) ==
    LET r == ReadAt(f, BTRFS_SUPER_INFO_SIZE, BTRFS_SUPER_POS)
    IN  IF ~r.ok THEN r
        ELSE Ok(r.val.bytes
                \o SubSeq(Zeros(BTRFS_SUPER_INFO_SIZE), r.val.n + 1, BTRFS_SUPER_INFO_SIZE))

CrcInputWhole(b) == b

CrcInputAfterValue(b) == SubSeq(b, 5, Len(b))

(* The bytes the test pipeline hands to crc32c: &b[32..].                  *)
CrcInput(b) == SubSeq(b, 33, Len(b))

---------------------------------------------------------------------------
(* The stored records the model draws from.                                *)

OffsetOf(name) ==
    FieldOffset(SuperblockLayout.fields, FieldIndex(SuperblockLayout.fields, name))

CsumTypeOffset == OffsetOf("csum_type")

MagicOffset == OffsetOf("magic")

BytenrOffset == OffsetOf("bytenr")

BTRFS_MAGIC == <<95, 66, 72, 82, 102, 83, 95, 77>>   \* "_BHRfS_M"

CsumTypes == (0..MaxCsumType) \cup {256, 65535}

IsCrcType(t) == t \notin {1, 2, 3}

Pattern(seed, o) == (o * 7 + seed * 13 + (o \div 256) * 31 + 1) % 256

(* Image 0 carries the Btrfs magic and bytenr = BTRFS_SUPER_POS; the other *)
(* images carry pattern bytes there.                                       *)
Payload(seed, ctype) ==
    [i \in 1..BTRFS_SUPER_INFO_SIZE |->
        LET o == i - 1
        IN  IF o = CsumTypeOffset THEN ctype % 256
            ELSE IF o = CsumTypeOffset + 1 THEN ctype \div 256
            ELSE IF seed = 0 /\ o - MagicOffset \in 0..7
                 THEN BTRFS_MAGIC[o - MagicOffset + 1]
            ELSE IF seed = 0 /\ o - BytenrOffset \in 0..7
                 THEN (IF o - BytenrOffset = 2 THEN 1 ELSE 0)
            ELSE Pattern(seed, o)]

(* What a conformant writer stores: for a CRC-32C record the checksum of   *)
(* bytes 32..4096 in csum[0..4] and zeros after it; for the other          *)
(* algorithms an opaque 32-byte digest.                                    *)
Image(seed, ctype) ==
    LET body == Payload(seed, ctype)
        c == Crc32c(SubSeq(body, 33, BTRFS_SUPER_INFO_SIZE))
    IN  IF IsCrcType(ctype)
        THEN <<c[1] % 256, c[1] \div 256, c[2] % 256, c[2] \div 256>>
             \o Zeros(28) \o SubSeq(body, 33, BTRFS_SUPER_INFO_SIZE)
        ELSE body

Images == {Image(s, t) : s \in 0..(NumImages - 1), t \in CsumTypes}

(* Sizes of a file that ends inside the record, and one that goes on.      *)
OddSizes ==
    {0, BTRFS_SUPER_POS + CsumTypeOffset + 1,
     BTRFS_SUPER_POS + BTRFS_SUPER_INFO_SIZE - 1,
     BTRFS_SUPER_POS + BTRFS_SUPER_INFO_SIZE + 1}

FileOf(img, size, readable) ==
    [size |-> size, readable |-> readable,
     data |-> IF size <= BTRFS_SUPER_POS THEN <<>>
              ELSE SubSeq(img \o <<171>>, 1, size - BTRFS_SUPER_POS)]

Files ==
    {FileOf(img, BTRFS_SUPER_POS + BTRFS_SUPER_INFO_SIZE, TRUE) : img \in Images}
    \cup {FileOf(Image(0, 0), n, TRUE) : n \in OddSizes}
    \cup {FileOf(Image(0, 0), BTRFS_SUPER_POS + BTRFS_SUPER_INFO_SIZE, FALSE)}

FlipOffsets ==
    {0, 3, 4, 31, 32, BytenrOffset, MagicOffset, CsumTypeOffset,
     OffsetOf("reserved"), BTRFS_SUPER_INFO_SIZE - 1}

FlipBits == {0, 7}

Bit == <<1, 2, 4, 8, 16, 32, 64, 128>>

NoPrev == [csumType |-> "unset", crc32 |-> Unset, crc |-> <<>>]

NoTamper == [off |-> -1, bit |-> 0]

---------------------------------------------------------------------------
(* The state machine: a caller reads the record and calls each method on   *)
(* it, as the tests do; the stored record may then have one bit flipped    *)
(* and the caller runs again.  The methods take self by value and are      *)
(* pure, so the order of the calls does not matter.                        *)

Init ==
    /\ file \in Files
    /\ buf = <<>>
    /\ sbRes = Unset
    /\ csumTypeRes = "unset"
    /\ crc32Res = Unset
    /\ bytesRes = Unset
    /\ crcRes = <<>>
    /\ pc = "start"
    /\ prev = NoPrev
    /\ tamper = NoTamper

DoReadFromBlock ==
    /\ pc = "start"
    /\ buf' = IF ReadIntoBuf(file).ok THEN ReadIntoBuf(file).val ELSE <<>>
    /\ sbRes' = IF ReadIntoBuf(file).ok THEN Decode(buf') ELSE ReadIntoBuf(file)
    /\ pc' = IF sbRes'.ok THEN "read" ELSE "failed"
    /\ UNCHANGED <<file, csumTypeRes, crc32Res, bytesRes, crcRes, prev, tamper>>

DoGetCsumType ==
    /\ pc = "read"
    /\ csumTypeRes' = GetCsumType(sbRes.val)
    /\ pc' = "typed"
    /\ UNCHANGED <<file, buf, sbRes, crc32Res, bytesRes, crcRes, prev, tamper>>

DoGetCrc32 ==
    /\ pc = "typed"
    /\ crc32Res' = GetCrc32(sbRes.val)
    /\ pc' = "extracted"
    /\ UNCHANGED <<file, buf, sbRes, csumTypeRes, bytesRes, crcRes, prev, tamper>>

DoToBytes ==
    /\ pc = "extracted"
    /\ bytesRes' = ToBytes(sbRes.val)
    /\ pc' = "encoded"
    /\ UNCHANGED <<file, buf, sbRes, csumTypeRes, crc32Res, crcRes, prev, tamper>>

DoCrc32c ==
    /\ pc = "encoded"
    /\ bytesRes.ok
    /\ crcRes' = Crc32c(CrcInput(bytesRes.val))
    /\ pc' = "done"
    /\ UNCHANGED <<file, buf, sbRes, csumTypeRes, crc32Res, bytesRes, prev, tamper>>

(* One bit of the stored record is flipped, and the caller starts over.    *)
FlipBit(off, bit) ==
    /\ pc = "done"
    /\ tamper = NoTamper
    /\ off < Len(file.data)
    /\ file' = [file EXCEPT !.data[off + 1] = XorTab[@][Bit[bit + 1]]]
    /\ prev' = [csumType |-> csumTypeRes, crc32 |-> crc32Res, crc |-> crcRes]
    /\ tamper' = [off |-> off, bit |-> bit]
    /\ buf' = <<>>
    /\ sbRes' = Unset
    /\ csumTypeRes' = "unset"
    /\ crc32Res' = Unset
    /\ bytesRes' = Unset
    /\ crcRes' = <<>>
    /\ pc' = "start"

FlipSomeBit == \E off \in FlipOffsets, bit \in FlipBits : FlipBit(off, bit)

Next ==
    \/ DoReadFromBlock
    \/ DoGetCsumType
    \/ DoGetCrc32
    \/ DoToBytes
    \/ DoCrc32c
    \/ FlipSomeBit

Spec == Init /\ [][Next]_vars


---------------------------------------------------------------------------
(* Properties.                                                             *)

(* csum_type as stored in the buffer that was decoded.                     *)
StoredCsumType == buf[CsumTypeOffset + 1] + 256 * buf[CsumTypeOffset + 2]

(* The little-endian u32 in bytes 0..4 of the buffer, as base-65536 digits. *)
StoredCrc == <<buf[1] + 256 * buf[2], buf[3] + 256 * buf[4]>>

Encoded == pc \in {"encoded", "done"}

(* C1: round-trip identity.  Whatever 4096-byte buffer was decoded,        *)
(* to_bytes of the record returns a buffer equal to it at every one of the *)
(* 4096 positions, the bytes of the private uninterpreted fields included. *)
C1_RoundTrip ==
    Encoded => /\ bytesRes.ok
               /\ Len(buf) = 4096
               /\ bytesRes.val = buf

(* A record whose private fields all hold non-zero bytes was re-encoded.   *)
C1_Witness ==
    /\ Encoded
    /\ bytesRes.ok
    /\ sbRes.val.unused_leafsize # <<0, 0>>
    /\ sbRes.val.reserved8[1] # 0
    /\ sbRes.val.reserved[24] # <<0, 0, 0, 0>>
    /\ sbRes.val.padding[565] # 0
    /\ sbRes.val.super_roots[4].unused_64[4] # <<0, 0, 0, 0>>
    /\ sbRes.val.super_roots[4].unused_8[10] # 0

(* C2: fixed size.  The declared field widths sum to exactly 4096, and     *)
(* to_bytes always returns a buffer of exactly 4096 bytes, never the       *)
(* "size does not match" error.                                            *)
C2_FixedSize ==
    /\ SizeOf(SuperblockLayout) = 4096
    /\ SizeOf(DevItemLayout) = 98
    /\ SizeOf(RootBackupLayout) = 168
    /\ Encoded => bytesRes.ok /\ Len(bytesRes.val) = 4096

C2_Witness == pc = "encoded" /\ bytesRes.ok /\ Len(bytesRes.val) = BTRFS_SUPER_INFO_SIZE

(* C3: read_from_block returns an error whenever fewer than 4096 bytes are *)
(* available at offset 65536; it never returns a record built from a      *)
(* partially filled buffer.                                                *)
C3_ShortReadFails ==
    (pc # "start" /\ file.size < 65536 + 4096) => ~sbRes.ok

(* C4: classification is total and depends on csum_type alone: Xxhash for  *)
(* 1, Sha256 for 2, Blake2 for 3, Crc32 for 0 and for every other value.   *)
C4_Classification ==
    csumTypeRes # "unset" =>
        csumTypeRes = (CASE StoredCsumType = 1 -> "Xxhash"
                         [] StoredCsumType = 2 -> "Sha256"
                         [] StoredCsumType = 3 -> "Blake2"
                         [] OTHER -> "Crc32")

(* The unrecognized value 65535 was classified as Crc32.                   *)
C4_Witness == csumTypeRes = "Crc32" /\ StoredCsumType = 65535

(* C5: get_crc32 returns an error and no value exactly when csum_type is   *)
(* 1, 2 or 3, whatever csum holds; for every other csum_type, the          *)
(* unrecognized ones included, it returns a value.                         *)
C5_MismatchGuard ==
    pc \in {"extracted", "encoded", "done"} =>
        /\ crc32Res.ok <=> StoredCsumType \notin {1, 2, 3}
        /\ ~crc32Res.ok => crc32Res = Err("csum_type is not crc32")

(* get_crc32 refused a SHA-256 record whose first four csum bytes are not  *)
(* zero.                                                                   *)
C5_Witness ==
    /\ pc = "extracted"
    /\ StoredCsumType = 2
    /\ ~crc32Res.ok
    /\ StoredCrc # <<0, 0>>

(* C6: for a record that classifies as Crc32, the comparison of get_crc32  *)
(* with the CRC-32C of bytes 32..4096 of to_bytes holds exactly when the   *)
(* little-endian u32 in bytes 0..4 of the decoded buffer equals the        *)
(* CRC-32C of its bytes 32..4096; so a whole record as the writer stored   *)
(* it passes.                                                              *)
C6_VerifyCorrect ==
    (pc = "done" /\ crc32Res.ok) =>
        /\ (crc32Res.val = crcRes) <=> (StoredCrc = Crc32c(SubSeq(buf, 33, 4096)))
        /\ (tamper = NoTamper /\ file.size >= 65536 + 4096) => crc32Res.val = crcRes

(* A record as the writer stored it passes the comparison.                 *)
C6_Witness ==
    /\ pc = "done"
    /\ tamper = NoTamper
    /\ file.size = BTRFS_SUPER_POS + BTRFS_SUPER_INFO_SIZE
    /\ crc32Res.ok
    /\ crc32Res.val = crcRes

(* csum is the first field and 32 bytes wide; every other field lies in    *)
(* bytes 32..4096.                                                         *)
CsumOutsideCoveredRange ==
    LET fs == SuperblockLayout.fields
    IN  /\ fs[1][1] = "csum"
        /\ SizeOf(fs[1][2]) = 32
        /\ \A i \in 2..Len(fs) :
              /\ FieldOffset(fs, i) >= 32
              /\ FieldOffset(fs, i) + SizeOf(fs[i][2]) <= 4096

(* C7: two records that differ only in csum have the same CRC-32C over     *)
(* bytes 32..4096 of to_bytes; csum is the only field outside that range.  *)
C7_DomainExclusion ==
    /\ CsumOutsideCoveredRange
    /\ (pc = "done" /\ tamper.off \in 0..31) => crcRes = prev.crc

(* A bit of the declared CRC32 was flipped: the computed checksum is the   *)
(* same as before, and no longer equal to the declared one.                *)
C7_Witness ==
    /\ pc = "done"
    /\ tamper.off \in 0..3
    /\ crcRes = prev.crc
    /\ prev.crc32.ok /\ prev.crc32.val = prev.crc
    /\ crc32Res.ok /\ crc32Res.val # crcRes

(* C8: from a record whose declared CRC32 matches, flipping one bit at an  *)
(* offset in 32..4096 changes the computed CRC-32C, and the comparison     *)
(* with get_crc32 fails when the record still classifies as Crc32.         *)
C8_TamperDetected ==
    (/\ pc = "done"
     /\ tamper.off \in 32..4095
     /\ prev.crc32.ok
     /\ prev.crc32.val = prev.crc) =>
        /\ crcRes # prev.crc
        /\ crc32Res.ok => crc32Res.val # crcRes

(* The last byte of the padding of a passing record was flipped and the    *)
(* comparison failed.                                                      *)
C8_Witness ==
    /\ pc = "done"
    /\ tamper.off = 4095
    /\ prev.crc32.ok /\ prev.crc32.val = prev.crc
    /\ crc32Res.ok /\ crc32Res.val # crcRes

(* C9: a successful get_crc32 returns csum[0] + 256*csum[1] +              *)
(* 65536*csum[2] + 16777216*csum[3], within 0..2^32-1, and a change of     *)
(* csum[4..32] or of a field that leaves the classification alone does not *)
(* change it.                                                              *)
C9_Extraction ==
    /\ crc32Res.ok =>
          /\ crc32Res.val = <<buf[1] + 256 * buf[2], buf[3] + 256 * buf[4]>>
          /\ Len(crc32Res.val) = 2
          /\ \A d \in 1..2 : crc32Res.val[d] \in 0..65535
          /\ sbRes.val.csum = SubSeq(buf, 1, 32)
    /\ (crc32Res.ok /\ prev.crc32.ok /\ tamper.off >= 4) => crc32Res = prev.crc32

(* A bit of csum[4..32] was flipped and the declared value, whose four     *)
(* bytes are all different, stayed what it was.                            *)
C9_Witness ==
    /\ crc32Res.ok
    /\ tamper.off \in 4..31
    /\ crc32Res = prev.crc32
    /\ Cardinality({buf[1], buf[2], buf[3], buf[4]}) = 4

(* C10: no semantic validation.  Whenever the medium reads and holds 4096  *)
(* bytes at offset 65536, read_from_block returns a record, with bytes     *)
(* 64..72 as magic and bytes 48..56 as bytenr, whatever they are; and      *)
(* get_csum_type, get_crc32 and to_bytes do on a record with a changed     *)
(* magic what they did on the record before the change.                    *)
C10_NoValidation ==
    /\ (pc # "start" /\ file.readable /\ file.size >= 65536 + 4096) =>
          /\ sbRes.ok
          /\ sbRes.val.magic = SubSeq(file.data, 65, 72)
          /\ sbRes.val.bytenr = [j \in 1..4 |-> file.data[48 + 2 * j - 1]
                                               + 256 * file.data[48 + 2 * j]]
    /\ (pc = "done" /\ tamper.off \in 64..71) =>
          /\ csumTypeRes = prev.csumType
          /\ crc32Res = prev.crc32
          /\ bytesRes.ok /\ bytesRes.val = buf

(* A record whose magic is not the Btrfs magic and whose bytenr is not     *)
(* 65536 went through the whole pipeline.                                  *)
C10_Witness ==
    /\ pc = "done"
    /\ sbRes.ok
    /\ sbRes.val.magic # BTRFS_MAGIC
    /\ sbRes.val.bytenr # <<0, 1, 0, 0>>
    /\ bytesRes.ok

===========================================================================
